---- MODULE Spec2Model ----
(***************************************************************************)
(* A model of cast.h, the single-header checked numeric conversion         *)
(* library.  Every try_<dst>_from_<src> function generated by the          *)
(* CAST_DEFINE_TRY_* macros is an operator computed the way the macro body *)
(* computes it; the actions are a caller that declares a destination       *)
(* variable and calls the functions on it.                                 *)
(*                                                                         *)
(* Numbers.  TLC's integers are 32 bits wide, so a 64-bit machine word     *)
(* (cast_largest_utype) is a tuple of four 16-bit limbs, most significant  *)
(* first.  A C integer value is its mathematical value [neg, mag]; the     *)
(* casts of the code ((cast_largest_utype)src, (dst_type)src) are computed *)
(* in two's complement modulo 2^64 and 2^w.  A floating-point value is     *)
(* [cls, neg, m, e], the dyadic number (-1)^neg * m * 2^e with m odd (or   *)
(* m = 0, e = 0), or an infinity or a NaN.                                 *)
(*                                                                         *)
(* Data model: LP64 (short 16, int 32, long / long long / size_t /         *)
(* ptrdiff_t / uintptr_t 64 bits), IEEE-754 binary32 and binary64.         *)
(***************************************************************************)
EXTENDS Integers, Sequences, FiniteSets, TLC

VARIABLES
    cc,        \* the compiler of the build: selects the #if branch of cast_shift_zeros_right
    dstType,   \* name of the type of the caller's destination variable
    dst,       \* value held by the caller's destination variable
    prev,      \* value the destination held when the last call was made
    lastOk,    \* value written by the last successful call, or the initial value
    call,      \* the last call: function family, types, pointer, source, return value
    fault,     \* TRUE once a call dereferenced a null destination pointer
    errno,     \* the C library's error indicator
    handler,   \* the build's cast_panic_impl: "default", or "custom" with CAST_CUSTOM_PANIC
    panics,    \* the invocations of cast_panic_impl since the destination was declared
    err_stream,   \* what was written to stderr
    exit_status,  \* the status the process exited with, Running before that
    from,      \* the activation of a <dst>_from_<src> function: its tmp and where it is
    fwd,       \* the call before the last one, when the last one converted its result back
    thr        \* the threads that call the text primitives: each one's call and errno

vars == <<cc, dstType, dst, prev, lastOk, call, fault,
          errno, handler, panics, err_stream, exit_status, from, fwd, thr>>

\* F applied to the value of x, which is computed once: a local variable of the
\* code that is assigned once and read several times
Bind(x, F(_)) == CHOOSE y \in {F(v) : v \in {x}} : TRUE

----------------------------------------------------------------------------
(* 64-bit unsigned words as four 16-bit limbs.                             *)

LIMB == 2^16

U64Zero == <<0, 0, 0, 0>>
U64One == <<0, 0, 0, 1>>
U64Max == <<LIMB - 1, LIMB - 1, LIMB - 1, LIMB - 1>>

\* The word of a natural number below 2^31.
U64(n) == <<0, 0, n \div LIMB, n % LIMB>>

ULt(a, b) == \E i \in 1..4 : a[i] < b[i] /\ \A j \in 1..(i - 1) : a[j] = b[j]
ULe(a, b) == a = b \/ ULt(a, b)
UGt(a, b) == ULt(b, a)

LimbAt(a, i) == IF i >= 1 /\ i <= 4 THEN a[i] ELSE 0

ShrLimbs(a, k) == <<LimbAt(a, 1 - k), LimbAt(a, 2 - k), LimbAt(a, 3 - k), LimbAt(a, 4 - k)>>
ShrBits(a, k) ==
    <<a[1] \div 2^k,
      (a[2] \div 2^k) + (a[1] % 2^k) * 2^(16 - k),
      (a[3] \div 2^k) + (a[2] % 2^k) * 2^(16 - k),
      (a[4] \div 2^k) + (a[3] % 2^k) * 2^(16 - k)>>
\* value >> n  (n >= 64 gives 0)
Shr(a, n) == IF n >= 64 THEN U64Zero ELSE ShrBits(ShrLimbs(a, n \div 16), n % 16)

ShlLimbs(a, k) == <<LimbAt(a, 1 + k), LimbAt(a, 2 + k), LimbAt(a, 3 + k), LimbAt(a, 4 + k)>>
ShlBits(a, k) ==
    <<((a[1] * 2^k) % LIMB) + (a[2] \div 2^(16 - k)),
      ((a[2] * 2^k) % LIMB) + (a[3] \div 2^(16 - k)),
      ((a[3] * 2^k) % LIMB) + (a[4] \div 2^(16 - k)),
      (a[4] * 2^k) % LIMB>>
\* value << n modulo 2^64  (n >= 64 gives 0)
Shl(a, n) == IF n >= 64 THEN U64Zero ELSE ShlBits(ShlLimbs(a, n \div 16), n % 16)

\* value & (2^n - 1)
LowBits(a, n) == IF n >= 64 THEN a ELSE Shr(Shl(a, 64 - n), 64 - n)

UNot(a) == <<LIMB - 1 - a[1], LIMB - 1 - a[2], LIMB - 1 - a[3], LIMB - 1 - a[4]>>

\* a * k + d with k, d small; [v |-> the low 64 bits, ovf |-> whether bits were lost]
UMulAdd(a, k, d) ==
    LET t4 == a[4] * k + d
        t3 == a[3] * k + (t4 \div LIMB)
        t2 == a[2] * k + (t3 \div LIMB)
        t1 == a[1] * k + (t2 \div LIMB)
    IN  [v |-> <<t1 % LIMB, t2 % LIMB, t3 % LIMB, t4 % LIMB>>, ovf |-> t1 \div LIMB # 0]

\* a + 1 modulo 2^64
UInc(a) == UMulAdd(a, 1, 1).v
\* a - 1 modulo 2^64
UDec(a) == UNot(UInc(UNot(a)))
\* two's complement negation, -a modulo 2^64
UNeg(a) == UInc(UNot(a))

BitLen16(x) == IF x = 0 THEN 0 ELSE CHOOSE n \in 1..16 : 2^(n - 1) <= x /\ x < 2^n
\* number of bits of a: 0 for 0, else 1 + the index of the highest set bit
BitLen(a) ==
    IF a[1] # 0 THEN 48 + BitLen16(a[1])
    ELSE IF a[2] # 0 THEN 32 + BitLen16(a[2])
    ELSE IF a[3] # 0 THEN 16 + BitLen16(a[3])
    ELSE BitLen16(a[4])

Ctz16(x) == CHOOSE n \in 0..15 : x % 2^(n + 1) = 2^n
\* number of trailing zero bits of a non-zero word (__builtin_ctzll)
Ctz(a) ==
    IF a[4] # 0 THEN Ctz16(a[4])
    ELSE IF a[3] # 0 THEN 16 + Ctz16(a[3])
    ELSE IF a[2] # 0 THEN 32 + Ctz16(a[2])
    ELSE 48 + Ctz16(a[1])

BitAt(a, i) == Shr(a, i)[4] % 2

----------------------------------------------------------------------------
(* C integer values: the mathematical integer, sign and magnitude.         *)

IntV(neg, mag) == [neg |-> neg /\ mag # U64Zero, mag |-> mag]
Int0 == IntV(FALSE, U64Zero)
IPos(n) == IntV(FALSE, U64(n))
INeg(n) == IntV(TRUE, U64(n))

ILt(a, b) ==
    IF a.neg # b.neg THEN a.neg
    ELSE IF a.neg THEN ULt(b.mag, a.mag)
    ELSE ULt(a.mag, b.mag)
ILe(a, b) == a = b \/ ILt(a, b)
IGt(a, b) == ILt(b, a)

\* -x, of a value whose negation is representable
INegate(a) == IntV(~a.neg, a.mag)

ISucc(a) ==
    IF a.neg THEN IntV(TRUE, UDec(a.mag))
    ELSE IF a.mag = U64Max THEN a ELSE IntV(FALSE, UInc(a.mag))
IPred(a) ==
    IF a.neg THEN (IF a.mag = U64Max THEN a ELSE IntV(TRUE, UInc(a.mag)))
    ELSE IF a.mag = U64Zero THEN IntV(TRUE, U64One) ELSE IntV(FALSE, UDec(a.mag))
RECURSIVE IPlus(_, _)
\* a + k for a small k
IPlus(a, k) ==
    IF k = 0 THEN a
    ELSE IF k > 0 THEN IPlus(ISucc(a), k - 1) ELSE IPlus(IPred(a), k + 1)

----------------------------------------------------------------------------
(* The type catalogue: the short names of the README and of CAST_TYPES,    *)
(* with the kind and the width each has under LP64.                        *)

UTypes == {"u8", "u16", "u32", "u64", "uint", "ushort", "ulong", "ullong", "size", "uptr"}
STypes == {"i8", "i16", "i32", "i64", "int", "short", "long", "llong", "ptrdiff"}
FTypes == {"float", "double"}
IntTypes == UTypes \cup STypes
\* the unsigned sources CAST_DEFINE_TRY_F converts from: all of UTypes but uptr
FSrcUTypes == UTypes \ {"uptr"}

\* sizeof(type) * 8
Bits(t) ==
    CASE t \in {"u8", "i8", "bool"} -> 8
      [] t \in {"u16", "i16", "ushort", "short"} -> 16
      [] t \in {"u32", "i32", "uint", "int", "float"} -> 32
      [] OTHER -> 64

IsSigned(t) == t \in STypes

\* UINT8_MAX ... UINTPTR_MAX, INT8_MAX ... PTRDIFF_MAX
TypeMax(t) == IntV(FALSE, Shr(U64Max, IF IsSigned(t) THEN 65 - Bits(t) ELSE 64 - Bits(t)))
\* INT8_MIN ... PTRDIFF_MIN; 0 for an unsigned type
TypeMin(t) == IF IsSigned(t) THEN IntV(TRUE, Shl(U64One, Bits(t) - 1)) ELSE Int0

\* whether the mathematical value v is a value of the integer type t
InRange(v, t) == ILe(TypeMin(t), v) /\ ILe(v, TypeMax(t))

\* (cast_largest_utype)src: the value modulo 2^64
ToLargestU(v) == IF v.neg THEN UNeg(v.mag) ELSE v.mag

\* (dst_type)src for an integer dst_type: the value modulo 2^w, read as a
\* two's complement number when dst_type is signed
CastInt(t, v) ==
    Bind(LowBits(ToLargestU(v), Bits(t)), LAMBDA low :
        IF IsSigned(t) /\ BitAt(low, Bits(t) - 1) = 1
        THEN IntV(TRUE, LowBits(UNeg(low), Bits(t)))
        ELSE IntV(FALSE, low))

----------------------------------------------------------------------------
(* The outcome of one call: the return value, the value the destination    *)
(* holds afterwards, and whether the call stored through its dst pointer.  *)

NULL == "NULL"
Ptrs == {NULL, "&dst"}

Fail(old) == [ret |-> -1, val |-> old, wrote |-> FALSE]
Store(v) == [ret |-> 0, val |-> v, wrote |-> TRUE]

----------------------------------------------------------------------------
(* Integer to integer.                                                     *)

\* CAST_DEFINE_TRY_U_FROM_S without its "src < 0" test
CAST_DEFINE_TRY_U_FROM_S_NoSign(dst_type, dst_max, p, old, src) ==
    IF p = NULL \/ UGt(ToLargestU(src), ToLargestU(dst_max))
    THEN Fail(old) ELSE Store(CastInt(dst_type, src))

\* try_<dst>_from_<src> of CAST_DEFINE_TRY_U_FROM_S, which CAST_DEFINE_TRY_U_FROM_U
\* and CAST_DEFINE_TRY_S_FROM_U expand to as well
CAST_DEFINE_TRY_U_FROM_S(dst_type, dst_max, p, old, src) ==
    IF p = NULL \/ ILt(src, Int0) \/ UGt(ToLargestU(src), ToLargestU(dst_max))
    THEN Fail(old)
    ELSE Store(CastInt(dst_type, src))

CAST_DEFINE_TRY_U_FROM_U(dst_type, dst_max, p, old, src) ==
    CAST_DEFINE_TRY_U_FROM_S(dst_type, dst_max, p, old, src)

\* CAST_DEFINE_TRY_S_FROM_U that rejects the maximum of the destination
CAST_DEFINE_TRY_S_FROM_U_Strict(dst_type, dst_max, p, old, src) ==
    IF p = NULL \/ ILt(src, Int0) \/ ~ULt(ToLargestU(src), ToLargestU(dst_max))
    THEN Fail(old)
    ELSE Store(CastInt(dst_type, src))

CAST_DEFINE_TRY_S_FROM_U(dst_type, dst_max, p, old, src) ==
    CAST_DEFINE_TRY_U_FROM_S(dst_type, dst_max, p, old, src)

\* CAST_DEFINE_TRY_S_FROM_S that rejects the minimum of the destination
CAST_DEFINE_TRY_S_FROM_S_Exclusive(dst_type, dst_min, dst_max, p, old, src) ==
    IF p = NULL \/ ILe(src, dst_min) \/ IGt(src, dst_max)
    THEN Fail(old)
    ELSE Store(CastInt(dst_type, src))

CAST_DEFINE_TRY_S_FROM_S(dst_type, dst_min, dst_max, p, old, src) ==
    IF p = NULL \/ ILt(src, dst_min) \/ IGt(src, dst_max)
    THEN Fail(old)
    ELSE Store(CastInt(dst_type, src))

----------------------------------------------------------------------------
(* Floating-point values.                                                  *)

\* the finite value (-1)^neg * m * 2^e, in canonical form (m odd, or m = 0 and e = 0)
Fin(neg, m, e) ==
    Bind(m, LAMBDA w :
        IF w = U64Zero THEN [cls |-> "fin", neg |-> neg, m |-> U64Zero, e |-> 0]
        ELSE [cls |-> "fin", neg |-> neg, m |-> Shr(w, Ctz(w)), e |-> e + Ctz(w)])
Inf(neg) == [cls |-> "inf", neg |-> neg, m |-> U64Zero, e |-> 0]
NaN == [cls |-> "nan", neg |-> FALSE, m |-> U64Zero, e |-> 0]

\* significand precision in bits, with the implicit bit: FLT_MANT_DIG, DBL_MANT_DIG
Precision(t) == IF t = "float" THEN 24 ELSE 53
\* largest and smallest binary exponent of a finite value's leading bit
MaxExp(t) == IF t = "float" THEN 127 ELSE 1023
MinExp(t) == IF t = "float" THEN -149 ELSE -1074

\* whether f is a value of the floating type t
IsValueOf(f, t) ==
    f.cls # "fin" \/ f.m = U64Zero
    \/ (BitLen(f.m) <= Precision(t) /\ BitLen(f.m) + f.e - 1 <= MaxExp(t) /\ f.e >= MinExp(t))

\* (dst_type)src for a floating dst_type and an integer src: the nearest value of
\* dst_type, ties to even
IntToFP(t, v) ==
    Bind(BitLen(v.mag) - Precision(t), LAMBDA s :
        IF s <= 0 THEN Fin(v.neg, v.mag, 0)
        ELSE Bind(Shr(v.mag, s), LAMBDA q :
                 IF BitAt(v.mag, s - 1) = 1
                    /\ (LowBits(v.mag, s - 1) # U64Zero \/ q[4] % 2 = 1)
                 THEN Fin(v.neg, UInc(q), s)
                 ELSE Fin(v.neg, q, s)))

\* whether the floating value f is numerically the integer v
FPEqualsInt(f, v) == f.cls = "fin" /\ f.m = Fin(v.neg, v.mag, 0).m
                     /\ f.e = Fin(v.neg, v.mag, 0).e /\ (f.neg = v.neg \/ f.m = U64Zero)

FSign(f) == IF f.cls = "fin" /\ f.m = U64Zero THEN 0 ELSE IF f.neg THEN -1 ELSE 1

\* |a| < |b| for non-zero, non-NaN a and b
FMagLt(a, b) ==
    IF a.cls = "inf" THEN FALSE
    ELSE IF b.cls = "inf" THEN TRUE
    ELSE LET la == BitLen(a.m)
             lb == BitLen(b.m)
         IN  IF la + a.e # lb + b.e THEN la + a.e < lb + b.e
             ELSE ULt(Shl(a.m, 64 - la), Shl(b.m, 64 - lb))

\* a < b on doubles: false when either is a NaN, and -0.0 is not below 0.0
FLt(a, b) ==
    IF a.cls = "nan" \/ b.cls = "nan" THEN FALSE
    ELSE IF FSign(a) # FSign(b) THEN FSign(a) < FSign(b)
    ELSE IF FSign(a) = 0 THEN FALSE
    ELSE IF FSign(a) > 0 THEN FMagLt(a, b) ELSE FMagLt(b, a)
\* a <= b on doubles
FLe(a, b) == a.cls # "nan" /\ b.cls # "nan" /\ ~FLt(b, a)

\* -x
FNegate(f) == Bind(f, LAMBDA x : [x EXCEPT !.neg = ~x.neg])
\* 2.0 * x, of a finite x far from overflow
FTimes2(f) ==
    Bind(f, LAMBDA x : IF x.cls = "fin" /\ x.m # U64Zero THEN [x EXCEPT !.e = x.e + 1] ELSE x)

\* trunc(x): the integral part, rounded toward zero, keeping the sign (trunc(-0.9) is -0.0)
trunc(f) ==
    IF f.cls # "fin" \/ f.e >= 0 THEN f ELSE Fin(f.neg, Shr(f.m, 0 - f.e), 0)

\* whether the finite f is integral with a magnitude below 2^64
FitsWord(f) == f.cls = "fin" /\ f.e >= 0 /\ BitLen(f.m) + f.e <= 64
\* the integer an integral f with FitsWord(f) is
FPInt(f) == IntV(f.neg, Shl(f.m, f.e))

\* what an out-of-range floating to integer cast may leave in an integer of type t
\* (undefined behaviour: the x86 "indefinite" value, a saturated value, or zero)
UBValues(t) == {TypeMin(t), Int0, TypeMax(t)}

\* (dst_type)x for an integer dst_type and an integral double x: the values the
\* cast can produce, one when x is in range of dst_type
CastFP(t, f) ==
    IF FitsWord(f) /\ InRange(FPInt(f), t) THEN {FPInt(f)} ELSE UBValues(t)

CAST_SIGNED_UPPER_LIMIT(min) == FNegate(IntToFP("double", min))

\* CAST_UNSIGNED_UPPER_LIMIT without its "2.0 *"
CAST_UNSIGNED_UPPER_LIMIT_Half(type) ==
    IntToFP("double", IntV(FALSE, Shl(U64One, Bits(type) - 1)))

CAST_UNSIGNED_UPPER_LIMIT(type) ==
    FTimes2(IntToFP("double", IntV(FALSE, Shl(U64One, Bits(type) - 1))))

----------------------------------------------------------------------------
(* Integer to floating point.                                              *)

\* the __builtin_ctzll branch
cast_shift_zeros_right_ctz(value) ==
    IF UGt(value, U64Zero) THEN Shr(value, Ctz(value)) ELSE U64Zero

\* the portable branch without its last conditional shift
cast_shift_zeros_right_shifts_No1(value) ==
    Bind(IF LowBits(value, 32) = U64Zero THEN Shr(value, 32) ELSE value, LAMBDA v32 :
    Bind(IF LowBits(v32, 16) = U64Zero THEN Shr(v32, 16) ELSE v32, LAMBDA v16 :
    Bind(IF LowBits(v16, 8) = U64Zero THEN Shr(v16, 8) ELSE v16, LAMBDA v8 :
    Bind(IF LowBits(v8, 4) = U64Zero THEN Shr(v8, 4) ELSE v8, LAMBDA v4 :
         IF LowBits(v4, 2) = U64Zero THEN Shr(v4, 2) ELSE v4))))

\* the portable branch: conditional shifts by 32, 16, 8, 4, 2, 1
cast_shift_zeros_right_shifts(value) ==
    Bind(IF LowBits(value, 32) = U64Zero THEN Shr(value, 32) ELSE value, LAMBDA v32 :
    Bind(IF LowBits(v32, 16) = U64Zero THEN Shr(v32, 16) ELSE v32, LAMBDA v16 :
    Bind(IF LowBits(v16, 8) = U64Zero THEN Shr(v16, 8) ELSE v16, LAMBDA v8 :
    Bind(IF LowBits(v8, 4) = U64Zero THEN Shr(v8, 4) ELSE v8, LAMBDA v4 :
    Bind(IF LowBits(v4, 2) = U64Zero THEN Shr(v4, 2) ELSE v4, LAMBDA v2 :
         IF LowBits(v2, 1) = U64Zero THEN Shr(v2, 1) ELSE v2)))))

Compilers == {"clang", "gcc"}

\* cast_shift_zeros_right that shifts nothing
cast_shift_zeros_right_None(value) == value

cast_shift_zeros_right(value) ==
    IF cc = "clang" THEN cast_shift_zeros_right_ctz(value)
    ELSE cast_shift_zeros_right_shifts(value)

FloatMantissaBits == 24
DoubleMantissaBits == 54
\* CAST_DEFINE_TRY_F instantiated with fewer mantissa bits than a 16-bit or a
\* 32-bit source has value bits
mantissa_bits_Short(dst_type) == IF dst_type = "float" THEN 15 ELSE 31

\* the mantissa_bits argument CAST_DEFINE_TRY_F is instantiated with
mantissa_bits(dst_type) == IF dst_type = "float" THEN FloatMantissaBits ELSE DoubleMantissaBits

\* (1ULL << mantissa_bits) - 1ULL
MantissaLimit(bits) == UDec(Shl(U64One, bits))

\* CAST_DEFINE_TRY_F_FROM_S without its "src == src_min" test, in a build where
\* the "-src" of the promoted type wraps
CAST_DEFINE_TRY_F_FROM_S_NoPrune(dst_type, bits, src_type, src_min, p, old, src) ==
    IF p = NULL THEN Fail(old)
    ELSE IF Bits(src_type) < Bits(dst_type) THEN Store(IntToFP(dst_type, src))
    ELSE Bind(cast_shift_zeros_right(
                  ToLargestU(IF ILt(src, Int0)
                             THEN CastInt(IF Bits(src_type) < 32 THEN "int" ELSE src_type,
                                          INegate(src))
                             ELSE src)), LAMBDA relevant :
             IF UGt(relevant, MantissaLimit(bits)) THEN Fail(old)
             ELSE Store(IntToFP(dst_type, src)))

CAST_DEFINE_TRY_F_FROM_S(dst_type, bits, src_type, src_min, p, old, src) ==
    IF p = NULL THEN Fail(old)
    ELSE IF Bits(src_type) < Bits(dst_type) THEN Store(IntToFP(dst_type, src))
    ELSE IF src = src_min THEN Store(IntToFP(dst_type, src))
    ELSE Bind(cast_shift_zeros_right(
                  ToLargestU(IF ILt(src, Int0) THEN INegate(src) ELSE src)), LAMBDA relevant :
             IF UGt(relevant, MantissaLimit(bits)) THEN Fail(old)
             ELSE Store(IntToFP(dst_type, src)))

\* CAST_DEFINE_TRY_F_FROM_U without its "dst == NULL" test
CAST_DEFINE_TRY_F_FROM_U_NoNull(dst_type, bits, src_type, p, old, src) ==
    IF Bits(src_type) < Bits(dst_type) THEN Store(IntToFP(dst_type, src))
    ELSE Bind(cast_shift_zeros_right(ToLargestU(src)), LAMBDA relevant :
             IF UGt(relevant, MantissaLimit(bits)) THEN Fail(old)
             ELSE Store(IntToFP(dst_type, src)))

CAST_DEFINE_TRY_F_FROM_U(dst_type, bits, src_type, p, old, src) ==
    IF p = NULL THEN Fail(old)
    ELSE IF Bits(src_type) < Bits(dst_type) THEN Store(IntToFP(dst_type, src))
    ELSE Bind(cast_shift_zeros_right(ToLargestU(src)), LAMBDA relevant :
             IF UGt(relevant, MantissaLimit(bits)) THEN Fail(old)
             ELSE Store(IntToFP(dst_type, src)))

----------------------------------------------------------------------------
(* Floating point to integer.  The float or double argument is converted   *)
(* to double by the call of trunc, which keeps its value.  The functions   *)
(* give the set of outcomes the call can have: more than one only when the *)
(* final cast is undefined.                                                *)

CAST_DEFINE_TRY_U_FROM_F(dst_type, p, old, src) ==
    IF p = NULL THEN {Fail(old)}
    ELSE Bind(CAST_UNSIGNED_UPPER_LIMIT(dst_type), LAMBDA src_upper :
         Bind(trunc(src), LAMBDA trunced_src :
             IF FLt(trunced_src, Fin(FALSE, U64Zero, 0)) \/ FLe(src_upper, trunced_src)
             THEN {Fail(old)}
             ELSE {Store(v) : v \in CastFP(dst_type, trunced_src)}))

\* CAST_DEFINE_TRY_S_FROM_F with "src_upper < trunced_src" for "src_upper <= trunced_src"
CAST_DEFINE_TRY_S_FROM_F_Inclusive(dst_type, dst_min, p, old, src) ==
    IF p = NULL THEN {Fail(old)}
    ELSE Bind(CAST_SIGNED_UPPER_LIMIT(dst_min), LAMBDA src_upper :
         Bind(IntToFP("double", dst_min), LAMBDA src_min :
         Bind(trunc(src), LAMBDA trunced_src :
             IF FLt(trunced_src, src_min) \/ FLt(src_upper, trunced_src)
             THEN {Fail(old)}
             ELSE {Store(v) : v \in CastFP(dst_type, trunced_src)})))

CAST_DEFINE_TRY_S_FROM_F(dst_type, dst_min, p, old, src) ==
    IF p = NULL THEN {Fail(old)}
    ELSE Bind(CAST_SIGNED_UPPER_LIMIT(dst_min), LAMBDA src_upper :
         Bind(IntToFP("double", dst_min), LAMBDA src_min :
         Bind(trunc(src), LAMBDA trunced_src :
             IF FLt(trunced_src, src_min) \/ FLe(src_upper, trunced_src)
             THEN {Fail(old)}
             ELSE {Store(v) : v \in CastFP(dst_type, trunced_src)})))

----------------------------------------------------------------------------
(* Text.  A C string is the sequence of its characters before the          *)
(* terminating '\0'; a null char pointer is NULL.  strtoull and strtoll    *)
(* are computed as ISO C specifies them for base 0.                        *)

\* a null char pointer
NullStr == <<"(null)">>

DigitChars == <<"0", "1", "2", "3", "4", "5", "6", "7", "8", "9",
                "a", "b", "c", "d", "e", "f">>
UpperDigitChars == <<"0", "1", "2", "3", "4", "5", "6", "7", "8", "9",
                     "A", "B", "C", "D", "E", "F">>

\* the value of character c as a digit of the base, or -1
DigitValue(c, base) ==
    IF \E i \in 1..base : DigitChars[i] = c \/ UpperDigitChars[i] = c
    THEN (CHOOSE i \in 1..base : DigitChars[i] = c \/ UpperDigitChars[i] = c) - 1
    ELSE 0 - 1

\* isspace() in the "C" locale, for the characters TLA+ strings can hold
IsSpace(c) == c \in {" ", "\t", "\n", "\r", "\f"}

CharAt(str, i) == IF i >= 1 /\ i <= Len(str) THEN str[i] ELSE "\\0"

\* the position of the first character from i on that is not white space
SkipSpaces(str, i) ==
    CHOOSE j \in i..(Len(str) + 1) :
        ~IsSpace(CharAt(str, j)) /\ \A k \in i..(j - 1) : IsSpace(CharAt(str, k))

\* the digits of the base from position i on: the accumulated magnitude, whether
\* it overflowed 64 bits, and the position of the first character not consumed
ScanDigits(str, i, base) ==
    Bind(CHOOSE j \in i..(Len(str) + 1) :
             /\ DigitValue(CharAt(str, j), base) < 0
             /\ \A k \in i..(j - 1) : DigitValue(CharAt(str, k), base) >= 0,
         LAMBDA end :
             LET acc[k \in (i - 1)..(end - 1)] ==
                     IF k = i - 1 THEN [mag |-> U64Zero, ovf |-> FALSE, end |-> end]
                     ELSE Bind(acc[k - 1], LAMBDA a :
                          Bind(UMulAdd(a.mag, base, DigitValue(str[k], base)), LAMBDA r :
                              [mag |-> r.v, ovf |-> a.ovf \/ r.ovf, end |-> end]))
             IN  acc[end - 1])

\* where the digits of the number start, once white space and a sign are
\* skipped: the sign, the base the prefix selects, the first digit's position
ScanPrefix(str) ==
    Bind(SkipSpaces(str, 1), LAMBDA s :
    Bind(IF CharAt(str, s) \in {"+", "-"} THEN s + 1 ELSE s, LAMBDA b :
        IF CharAt(str, b) = "0" /\ CharAt(str, b + 1) \in {"x", "X"}
           /\ DigitValue(CharAt(str, b + 2), 16) >= 0
        THEN [neg |-> CharAt(str, s) = "-", base |-> 16, first |-> b + 2]
        ELSE [neg |-> CharAt(str, s) = "-",
              base |-> IF CharAt(str, b) = "0" THEN 8 ELSE 10, first |-> b]))

\* the subject sequence of strtoull / strtoll with base 0: white space, an
\* optional sign, an optional 0x / 0 prefix, digits.  end = 1 (endptr == str)
\* when no conversion is performed.
ScanNumber(str) ==
    Bind(ScanPrefix(str), LAMBDA pre :
    Bind(ScanDigits(str, pre.first, pre.base), LAMBDA d :
        IF d.end = pre.first
        THEN [neg |-> FALSE, mag |-> U64Zero, ovf |-> FALSE, end |-> 1]
        ELSE [neg |-> pre.neg, mag |-> d.mag, ovf |-> d.ovf, end |-> d.end]))

ERANGE == 34

\* strtoull(str, &endptr, 0): [val, end, errno], errno 0 when it is left as it was
strtoull(str) ==
    Bind(ScanNumber(str), LAMBDA n :
        IF n.ovf THEN [val |-> IntV(FALSE, U64Max), end |-> n.end, errno |-> ERANGE]
        ELSE [val |-> IntV(FALSE, IF n.neg THEN UNeg(n.mag) ELSE n.mag),
              end |-> n.end, errno |-> 0])

LLONG_MAX == TypeMax("llong")
LLONG_MIN == TypeMin("llong")

\* strtoll(str, &endptr, 0)
strtoll(str) ==
    Bind(ScanNumber(str), LAMBDA n :
    Bind(IntV(n.neg, n.mag), LAMBDA v :
        IF n.ovf \/ ILt(v, LLONG_MIN) \/ IGt(v, LLONG_MAX)
        THEN [val |-> IF n.neg THEN LLONG_MIN ELSE LLONG_MAX, end |-> n.end, errno |-> ERANGE]
        ELSE [val |-> v, end |-> n.end, errno |-> 0]))

\* cast_try_ullong_from_str that does not look at the characters after the number
cast_try_ullong_from_str_NoTrailing(p, old, str) ==
    IF p = NULL THEN Fail(old)
    ELSE IF str = NullStr THEN Fail(old)
    ELSE Bind(strtoull(str), LAMBDA r :
             IF r.errno # 0 THEN Fail(old)
             ELSE IF r.end = 1 \/ CharAt(str, 1) = "\\0" THEN Fail(old)
             ELSE Store(r.val))

cast_try_ullong_from_str(p, old, str) ==
    IF p = NULL THEN Fail(old)
    ELSE IF str = NullStr THEN Fail(old)
    ELSE Bind(strtoull(str), LAMBDA r :
             IF r.errno # 0 THEN Fail(old)
             ELSE IF CharAt(str, r.end) # "\\0" THEN Fail(old)
             ELSE IF r.end = 1 \/ CharAt(str, 1) = "\\0" THEN Fail(old)
             ELSE Store(r.val))

\* cast_try_llong_from_str that stores the parsed value before it looks at the
\* characters after the number
cast_try_llong_from_str_Early(p, old, str) ==
    IF p = NULL THEN Fail(old)
    ELSE IF str = NullStr THEN Fail(old)
    ELSE Bind(strtoll(str), LAMBDA r :
             IF r.errno # 0 THEN Fail(old)
             ELSE IF CharAt(str, r.end) # "\\0" THEN [ret |-> -1, val |-> r.val, wrote |-> TRUE]
             ELSE IF r.end = 1 \/ CharAt(str, 1) = "\\0" THEN Fail(old)
             ELSE Store(r.val))

cast_try_llong_from_str(p, old, str) ==
    IF p = NULL THEN Fail(old)
    ELSE IF str = NullStr THEN Fail(old)
    ELSE Bind(strtoll(str), LAMBDA r :
             IF r.errno # 0 THEN Fail(old)
             ELSE IF CharAt(str, r.end) # "\\0" THEN Fail(old)
             ELSE IF r.end = 1 \/ CharAt(str, 1) = "\\0" THEN Fail(old)
             ELSE Store(r.val))

\* errno after cast_try_ullong_from_str(p, str) called with errno = e: the
\* function returns before "errno = 0" for a null argument, else strtoull's
\* ERANGE replaces the zero
cast_try_ullong_from_str_errno(p, str, e) ==
    IF p = NULL \/ str = NullStr THEN e ELSE strtoull(str).errno

\* errno after cast_try_llong_from_str(p, str) called with errno = e
cast_try_llong_from_str_errno(p, str, e) ==
    IF p = NULL \/ str = NullStr THEN e ELSE strtoll(str).errno

\* errno after try_bool_from_str(val, str) called with errno = e
try_bool_from_str_errno(val, str, e) ==
    IF val = NULL THEN e ELSE cast_try_llong_from_str_errno("&tmp", str, e)

----------------------------------------------------------------------------
(* The function families: try_<dst_type>_from_<src_type> as the            *)
(* CAST_DEFINE_TRY_U / _S / _F instantiations define it.                   *)

CAST_DEFINE_TRY_U_FROM_STR(dst_type, p, old, str) ==
    Bind(cast_try_ullong_from_str("&tmp", Int0, str), LAMBDA r :
        IF r.ret # 0 THEN Fail(old)
        ELSE CAST_DEFINE_TRY_U_FROM_U(dst_type, TypeMax(dst_type), p, old, r.val))

\* the try_<dst_type>_from_llong that CAST_DEFINE_TRY_S_FROM_STR ends with
TryFromLlong(dst_type, p, old, src) ==
    IF dst_type \in FTypes
    THEN CAST_DEFINE_TRY_F_FROM_S(dst_type, mantissa_bits(dst_type), "llong", LLONG_MIN,
                                  p, old, src)
    ELSE CAST_DEFINE_TRY_S_FROM_S(dst_type, TypeMin(dst_type), TypeMax(dst_type), p, old, src)

CAST_DEFINE_TRY_S_FROM_STR(dst_type, p, old, str) ==
    Bind(cast_try_llong_from_str("&tmp", Int0, str), LAMBDA r :
        IF r.ret # 0 THEN Fail(old)
        ELSE TryFromLlong(dst_type, p, old, r.val))

try_bool_from_str(val, old, str) ==
    IF val = NULL THEN Fail(old)
    ELSE Bind(CAST_DEFINE_TRY_S_FROM_STR("llong", "&tmp", Int0, str), LAMBDA r :
             IF r.ret # 0 THEN Fail(old)
             ELSE Store(r.val # Int0))

\* try_<dst_type>_from_<src_type> for an unsigned dst_type and an integer src_type
CAST_DEFINE_TRY_U(dst_type, src_type, p, old, src) ==
    IF src_type \in STypes
    THEN CAST_DEFINE_TRY_U_FROM_S(dst_type, TypeMax(dst_type), p, old, src)
    ELSE CAST_DEFINE_TRY_U_FROM_U(dst_type, TypeMax(dst_type), p, old, src)

\* try_<dst_type>_from_<src_type> for a signed dst_type and an integer src_type
CAST_DEFINE_TRY_S(dst_type, src_type, p, old, src) ==
    IF src_type \in STypes
    THEN CAST_DEFINE_TRY_S_FROM_S(dst_type, TypeMin(dst_type), TypeMax(dst_type), p, old, src)
    ELSE CAST_DEFINE_TRY_S_FROM_U(dst_type, TypeMax(dst_type), p, old, src)

\* try_<dst_type>_from_<src_type> for a floating dst_type and an integer src_type
CAST_DEFINE_TRY_F(dst_type, src_type, p, old, src) ==
    IF src_type \in STypes
    THEN CAST_DEFINE_TRY_F_FROM_S(dst_type, mantissa_bits(dst_type), src_type,
                                  TypeMin(src_type), p, old, src)
    ELSE CAST_DEFINE_TRY_F_FROM_U(dst_type, mantissa_bits(dst_type), src_type, p, old, src)

----------------------------------------------------------------------------
(* The caller.  It declares a destination variable of some type with an    *)
(* initial value, as CAST_DEFINE_FROM and the TEST loops of cast_tests do, *)
(* and calls the conversion functions with a pointer to it or with a null  *)
(* pointer.                                                                *)

DstTypes == IntTypes \cup FTypes \cup {"bool"}

ZeroOf(t) ==
    IF t \in FTypes THEN Fin(FALSE, U64Zero, 0) ELSE IF t = "bool" THEN FALSE ELSE Int0
OneOf(t) ==
    IF t \in FTypes THEN Fin(FALSE, U64One, 0) ELSE IF t = "bool" THEN TRUE ELSE IPos(1)
\* the values a destination is declared with
Inits(t) == {ZeroOf(t), OneOf(t)}

\* how far from a boundary of a type the integer inputs go
Delta == 1

Around(v) == {IPlus(v, k) : k \in (0 - Delta)..Delta}

\* the source values try_<d>_from_<s> is called with: those around the bounds of
\* the two types and around zero that src_type s can hold
IntInputs ==
    [d \in IntTypes, s \in IntTypes |->
    {v \in Around(Int0) \cup Around(TypeMin(d)) \cup Around(TypeMax(d))
           \cup Around(TypeMin(s)) \cup Around(TypeMax(s)) : InRange(v, s)}]

----------------------------------------------------------------------------
(* Inputs.                                                                 *)

\* 2^k as a word, k < 64
Pow2(k) == Shl(U64One, k)

\* v and -v
BothSigns(S) == S \cup {INegate(v) : v \in S}

\* integers at the edge of what the floating type d holds exactly: around
\* 2^precision and 2^mantissa_bits, the same shifted left (trailing zeros),
\* and the examples of the README and of cast_tests
PrecisionEdges(d) ==
    LET near == Around(IntV(FALSE, Pow2(Precision(d))))
                \cup Around(IntV(FALSE, Pow2(mantissa_bits(d))))
    IN  near \cup {IntV(FALSE, Shl(v.mag, 1)) : v \in near}
             \cup {IntV(FALSE, Shl(v.mag, 62 - mantissa_bits(d))) : v \in near}
             \cup {IntV(FALSE, <<0, 15, 0, 0>>),               \* 0xF00000000
                   IntV(FALSE, <<0, 0, 65535, 65535>>),        \* 0xFFFFFFFF
                   IntV(FALSE, <<65535, 65535, 65535, 0>>),    \* 0xFFFFFFFFFFFF0000
                   IPos(1234)}

\* the source values try_<d>_from_<s> is called with, d floating and s an integer type
IntFInputs ==
    [d \in FTypes, s \in IntTypes |->
    {v \in Around(Int0) \cup Around(TypeMin(s)) \cup Around(TypeMax(s))
           \cup BothSigns(PrecisionEdges(d)) : InRange(v, s)}]

\* n and n + 1/2, either sign
WithHalves(S) ==
    UNION {{Fin(FALSE, v.mag, 0), Fin(TRUE, v.mag, 0)} : v \in S}
    \cup UNION {{Fin(FALSE, UMulAdd(v.mag, 2, 1).v, 0 - 1), Fin(TRUE, UMulAdd(v.mag, 2, 1).v, 0 - 1)} :
                v \in {x \in S : ~UMulAdd(x.mag, 2, 1).ovf}}

\* the values of floating type s next to 2^k: 2^k, the largest value below it and
\* the smallest above it, either sign
NextTo(k, s) ==
    UNION {{Fin(neg, U64One, k),
            Fin(neg, UDec(Pow2(Precision(s))), k - Precision(s)),
            Fin(neg, UInc(Pow2(Precision(s) - 1)), k - Precision(s) + 1)} : neg \in BOOLEAN}

\* the exponent of the bound of integer type d: the conversion must reject 2^LimitExp(d)
LimitExp(d) == IF IsSigned(d) THEN Bits(d) - 1 ELSE Bits(d)

FPExamples ==
    {Fin(FALSE, U64One, 0 - 3), Fin(TRUE, U64One, 0 - 3),            \* 0.125, -0.125
     Fin(TRUE, U64(7549747), 0 - 23),                                \* -0.9f
     Fin(TRUE, <<28, 52428, 52428, 52429>>, 0 - 53),                 \* -0.9
     Fin(FALSE, U64(3), 0 - 1),                                      \* 1.5
     Fin(FALSE, U64One, 100), Fin(TRUE, U64One, 100),                \* 2^100, -2^100
     Fin(FALSE, U64One, 64), Fin(FALSE, U64One, 32),                 \* CAST_UNSIGNED_UPPER_LIMIT
     Fin(TRUE, U64One, 63), Fin(FALSE, U64One, 63),                  \* INT64_MIN, -INT64_MIN
     Fin(TRUE, U64Zero, 0),                                          \* -0.0
     Fin(FALSE, U64One, 0 - 149),                                    \* the smallest subnormal float
     Inf(FALSE), Inf(TRUE), NaN}

\* the source values try_<d>_from_<s> is called with, d an integer type and s floating
FPInputs ==
    [d \in IntTypes, s \in FTypes |->
    {f \in FPExamples \cup NextTo(LimitExp(d), s)
           \cup WithHalves(Around(Int0) \cup {v \in Around(IntV(FALSE, Pow2(LimitExp(d) % 64))) :
                                                LimitExp(d) < 64}) :
        IsValueOf(f, s)}]

\* the texts the text conversions are called with, and a null char pointer
Texts ==
    {<<"0">>,
     <<"1">>,
     <<"-", "1">>,
     <<"+", "1">>,
     <<"-", "0">>,
     <<"0", "0">>,
     <<"0", "x", "1", "0">>,
     <<"0", "1", "0">>,
     <<"0", "x", "f", "f">>,
     <<"0", "X", "F", "F">>,
     <<"0", "x">>,
     <<"0", "8">>,
     <<>>,
     <<"1", "x">>,
     <<" ", "1">>,
     <<"\t", "1">>,
     <<"x">>,
     <<"-">>,
     <<"+">>,
     <<"1", " ">>,
     <<"1", ".", "5">>,
     <<"1", "e", "3">>,
     <<"-", " ", "1">>,
     <<"1", "2", "7">>,
     <<"1", "2", "8">>,
     <<"-", "1", "2", "8">>,
     <<"-", "1", "2", "9">>,
     <<"2", "5", "5">>,
     <<"2", "5", "6">>,
     <<"3", "2", "7", "6", "7">>,
     <<"3", "2", "7", "6", "8">>,
     <<"-", "3", "2", "7", "6", "8">>,
     <<"-", "3", "2", "7", "6", "9">>,
     <<"6", "5", "5", "3", "5">>,
     <<"6", "5", "5", "3", "6">>,
     <<"2", "1", "4", "7", "4", "8", "3", "6", "4", "7">>,
     <<"2", "1", "4", "7", "4", "8", "3", "6", "4", "8">>,
     <<"-", "2", "1", "4", "7", "4", "8", "3", "6", "4", "8">>,
     <<"-", "2", "1", "4", "7", "4", "8", "3", "6", "4", "9">>,
     <<"4", "2", "9", "4", "9", "6", "7", "2", "9", "5">>,
     <<"4", "2", "9", "4", "9", "6", "7", "2", "9", "6">>,
     <<"1", "6", "7", "7", "7", "2", "1", "6">>,
     <<"1", "6", "7", "7", "7", "2", "1", "7">>,
     <<"9", "0", "0", "7", "1", "9", "9", "2", "5", "4", "7", "4", "0", "9", "9", "3">>,
     <<"-", "9", "0", "0", "7", "1", "9", "9", "2", "5", "4", "7", "4", "0", "9", "9", "3">>,
     <<"9", "2", "2", "3", "3", "7", "2", "0", "3", "6", "8", "5", "4", "7", "7", "5", "8", "0", "7">>,
     <<"9", "2", "2", "3", "3", "7", "2", "0", "3", "6", "8", "5", "4", "7", "7", "5", "8", "0", "8">>,
     <<"-", "9", "2", "2", "3", "3", "7", "2", "0", "3", "6", "8", "5", "4", "7", "7", "5", "8", "0", "8">>,
     <<"-", "9", "2", "2", "3", "3", "7", "2", "0", "3", "6", "8", "5", "4", "7", "7", "5", "8", "0", "9">>,
     <<"0", "x", "7", "f", "f", "f", "f", "f", "f", "f", "f", "f", "f", "f", "f", "f", "f", "f">>,
     <<"0", "x", "8", "0", "0", "0", "0", "0", "0", "0", "0", "0", "0", "0", "0", "0", "0", "0">>,
     <<"0", "x", "f", "f", "f", "f", "f", "f", "f", "f", "f", "f", "f", "f", "f", "f", "f", "f">>,
     <<"0", "x", "1", "0", "0", "0", "0", "0", "0", "0", "0", "0", "0", "0", "0", "0", "0", "0", "0">>,
     <<"0", "1", "7", "7", "7", "7", "7", "7", "7", "7", "7", "7", "7", "7", "7", "7", "7", "7", "7", "7", "7", "7", "7">>,
     <<"0", "2", "0", "0", "0", "0", "0", "0", "0", "0", "0", "0", "0", "0", "0", "0", "0", "0", "0", "0", "0", "0", "0">>,
     <<"1", "8", "4", "4", "6", "7", "4", "4", "0", "7", "3", "7", "0", "9", "5", "5", "1", "6", "1", "5">>,
     <<"1", "8", "4", "4", "6", "7", "4", "4", "0", "7", "3", "7", "0", "9", "5", "5", "1", "6", "1", "6">>,
     <<"-", "1", "8", "4", "4", "6", "7", "4", "4", "0", "7", "3", "7", "0", "9", "5", "5", "1", "6", "1", "5">>,
     <<"-", "1", "8", "4", "4", "6", "7", "4", "4", "0", "7", "3", "7", "0", "9", "5", "5", "1", "6", "1", "6">>,
     <<"-", "1", "8", "4", "4", "6", "7", "4", "4", "0", "7", "3", "7", "0", "9", "5", "5", "1", "3", "6", "1">>}
StrInputs == Texts \cup {NullStr}

NoCall == [fn |-> "none", d |-> "none", s |-> "none", p |-> NULL, src |-> Int0, ret |-> 0]

\* how many threads call the text primitives at the same time
NThreads == 2
Threads == 1..NThreads

\* a thread that has not called yet: its own destination holds zero
IdleThread ==
    [pc |-> "idle", fn |-> "none", str |-> <<>>, errno |-> 0,
     val |-> Int0, end |-> 0, dst |-> Int0, ret |-> 0]

\* no <dst>_from_<src> function is active
NoFrom == [pc |-> "none", stmt |-> 0, tmp |-> Int0]

\* the process has not exited
Running == 0 - 1

\* the program starts, built with the cast_panic_impl h; errno is zero at startup
Start(h) ==
    /\ cc \in Compilers
    /\ dstType \in DstTypes
    /\ dst = ZeroOf(dstType)
    /\ prev = dst
    /\ lastOk = dst
    /\ call = NoCall
    /\ fault = FALSE
    /\ errno = 0
    /\ handler = h
    /\ panics = <<>>
    /\ err_stream = <<>>
    /\ exit_status = Running
    /\ from = NoFrom
    /\ fwd = NoCall
    /\ thr = [t \in Threads |-> IdleThread]

\* the build without CAST_CUSTOM_PANIC
Init == Start("default")

\* dst_type result = init;  the next iteration of a TEST loop, the next call of
\* a <dst>_from_<src> function
Declare(init) ==
    /\ ~fault
    /\ exit_status = Running
    /\ from.pc \in {"none", "returned"}
    /\ dst' = init
    /\ prev' = init
    /\ lastOk' = init
    /\ call' = NoCall
    /\ panics' = <<>>
    /\ from' = NoFrom
    /\ fwd' = NoCall
    /\ UNCHANGED <<thr, cc, dstType, fault, errno, handler, err_stream, exit_status>>

\* the effect of a call of try_<d>_from_<s>(p, src) with outcome r on the caller,
\* but for errno
Call(fn, d, s, p, src, r) ==
    /\ ~fault
    /\ exit_status = Running
    /\ from.pc \in {"none", "returned"}
    /\ dstType = d
    /\ prev' = dst
    /\ dst' = IF p = NULL THEN dst ELSE r.val
    /\ lastOk' = IF r.ret = 0 THEN r.val ELSE lastOk
    /\ fault' = (p = NULL /\ r.wrote)
    /\ call' = [fn |-> fn, d |-> d, s |-> s, p |-> p, src |-> src, ret |-> r.ret]
    /\ UNCHANGED <<thr, cc, dstType, handler, panics, err_stream, exit_status, from, fwd>>

TryUFromS(d, s, p, src) ==
    \E r \in {CAST_DEFINE_TRY_U(d, s, p, dst, src)} : Call("U_FROM_S", d, s, p, src, r) /\ UNCHANGED errno
TryUFromU(d, s, p, src) ==
    \E r \in {CAST_DEFINE_TRY_U(d, s, p, dst, src)} : Call("U_FROM_U", d, s, p, src, r) /\ UNCHANGED errno
TrySFromS(d, s, p, src) ==
    \E r \in {CAST_DEFINE_TRY_S(d, s, p, dst, src)} : Call("S_FROM_S", d, s, p, src, r) /\ UNCHANGED errno
TrySFromU(d, s, p, src) ==
    \E r \in {CAST_DEFINE_TRY_S(d, s, p, dst, src)} : Call("S_FROM_U", d, s, p, src, r) /\ UNCHANGED errno
TryFFromS(d, s, p, src) ==
    \E r \in {CAST_DEFINE_TRY_F(d, s, p, dst, src)} : Call("F_FROM_S", d, s, p, src, r) /\ UNCHANGED errno
TryFFromU(d, s, p, src) ==
    \E r \in {CAST_DEFINE_TRY_F(d, s, p, dst, src)} : Call("F_FROM_U", d, s, p, src, r) /\ UNCHANGED errno
TryUFromF(d, s, p, src) ==
    \E r \in CAST_DEFINE_TRY_U_FROM_F(d, p, dst, src) :
        Call("U_FROM_F", d, s, p, src, r) /\ UNCHANGED errno
TrySFromF(d, s, p, src) ==
    \E r \in CAST_DEFINE_TRY_S_FROM_F(d, TypeMin(d), p, dst, src) :
        Call("S_FROM_F", d, s, p, src, r) /\ UNCHANGED errno
TryUFromStr(d, p, str) ==
    \E r \in {CAST_DEFINE_TRY_U_FROM_STR(d, p, dst, str)} :
        Call("U_FROM_STR", d, "str", p, str, r)
        /\ errno' = cast_try_ullong_from_str_errno("&tmp", str, errno)
TrySFromStr(d, p, str) ==
    \E r \in {CAST_DEFINE_TRY_S_FROM_STR(d, p, dst, str)} :
        Call("S_FROM_STR", d, "str", p, str, r)
        /\ errno' = cast_try_llong_from_str_errno("&tmp", str, errno)
TryBoolFromStr(p, str) ==
    \E r \in {try_bool_from_str(p, dst, str)} :
        Call("bool_from_str", "bool", "str", p, str, r)
        /\ errno' = try_bool_from_str_errno(p, str, errno)
CastTryUllongFromStr(p, str) ==
    \E r \in {cast_try_ullong_from_str(p, dst, str)} :
        Call("cast_try_ullong_from_str", "ullong", "str", p, str, r)
        /\ errno' = cast_try_ullong_from_str_errno(p, str, errno)
CastTryLlongFromStr(p, str) ==
    \E r \in {cast_try_llong_from_str(p, dst, str)} :
        Call("cast_try_llong_from_str", "llong", "str", p, str, r)
        /\ errno' = cast_try_llong_from_str_errno(p, str, errno)

\* the destination was just declared: no call has been made on it
Fresh == call = NoCall

Redeclare == \E init \in Inits(dstType) : Declare(init)

\* integer to integer conversions, each on a freshly declared destination
NextInt ==
    \/ Redeclare
    \/ Fresh /\ dstType \in UTypes
       /\ \E s \in STypes, p \in Ptrs : \E src \in IntInputs[dstType, s] :
              TryUFromS(dstType, s, p, src)
    \/ Fresh /\ dstType \in UTypes
       /\ \E s \in UTypes, p \in Ptrs : \E src \in IntInputs[dstType, s] :
              TryUFromU(dstType, s, p, src)
    \/ Fresh /\ dstType \in STypes
       /\ \E s \in STypes, p \in Ptrs : \E src \in IntInputs[dstType, s] :
              TrySFromS(dstType, s, p, src)
    \/ Fresh /\ dstType \in STypes
       /\ \E s \in UTypes, p \in Ptrs : \E src \in IntInputs[dstType, s] :
              TrySFromU(dstType, s, p, src)

\* integer to floating-point conversions
NextIF ==
    \/ Redeclare
    \/ Fresh /\ dstType \in FTypes
       /\ \E s \in STypes, p \in Ptrs : \E src \in IntFInputs[dstType, s] :
              TryFFromS(dstType, s, p, src)
    \/ Fresh /\ dstType \in FTypes
       /\ \E s \in FSrcUTypes, p \in Ptrs : \E src \in IntFInputs[dstType, s] :
              TryFFromU(dstType, s, p, src)

\* floating-point to integer conversions
NextFI ==
    \/ Redeclare
    \/ Fresh /\ dstType \in UTypes
       /\ \E s \in FTypes, p \in Ptrs : \E src \in FPInputs[dstType, s] :
              TryUFromF(dstType, s, p, src)
    \/ Fresh /\ dstType \in STypes
       /\ \E s \in FTypes, p \in Ptrs : \E src \in FPInputs[dstType, s] :
              TrySFromF(dstType, s, p, src)

\* text conversions
NextStr ==
    \/ Redeclare
    \/ Fresh /\ dstType \in UTypes
       /\ \E p \in Ptrs, str \in StrInputs : TryUFromStr(dstType, p, str)
    \/ Fresh /\ dstType \in STypes \cup FTypes
       /\ \E p \in Ptrs, str \in StrInputs : TrySFromStr(dstType, p, str)
    \/ Fresh /\ \E p \in Ptrs, str \in StrInputs : TryBoolFromStr(p, str)
    \/ Fresh /\ \E p \in Ptrs, str \in StrInputs : CastTryUllongFromStr(p, str)
    \/ Fresh /\ \E p \in Ptrs, str \in StrInputs : CastTryLlongFromStr(p, str)

\* every fallible conversion, each on a freshly declared destination
Next == NextInt \/ NextIF \/ NextFI \/ NextStr

SpecInt == Init /\ [][NextInt]_vars
SpecIF == Init /\ [][NextIF]_vars
SpecFI == Init /\ [][NextFI]_vars
SpecStr == Init /\ [][NextStr]_vars
Spec == Init /\ [][Next]_vars

----------------------------------------------------------------------------
(* Sequences of calls on one destination, with a few inputs per function.  *)

SeqSTypes == {"i8", "llong"}
SeqUTypes == {"u8", "ullong"}

SeqIntInputs == [s \in IntTypes |-> {v \in {IPos(1), INeg(1)} : InRange(v, s)} \cup {TypeMax(s)}]
SeqFPInputs == {Fin(FALSE, U64(3), 0 - 1), Fin(TRUE, U64One, 0), Fin(FALSE, U64One, 100)}
SeqStrInputs == {<<"1">>, <<"2">>, <<"1", "x">>, <<"-", "1", "2", "9">>, <<"2", "5", "6">>, NullStr}

NextSeq ==
    \/ Redeclare
    \/ dstType \in UTypes
       /\ \E s \in SeqSTypes, p \in Ptrs : \E src \in SeqIntInputs[s] :
              TryUFromS(dstType, s, p, src)
    \/ dstType \in UTypes
       /\ \E s \in SeqUTypes, p \in Ptrs : \E src \in SeqIntInputs[s] :
              TryUFromU(dstType, s, p, src)
    \/ dstType \in STypes
       /\ \E s \in SeqSTypes, p \in Ptrs : \E src \in SeqIntInputs[s] :
              TrySFromS(dstType, s, p, src)
    \/ dstType \in STypes
       /\ \E s \in SeqUTypes, p \in Ptrs : \E src \in SeqIntInputs[s] :
              TrySFromU(dstType, s, p, src)
    \/ dstType \in FTypes
       /\ \E s \in SeqSTypes, p \in Ptrs : \E src \in SeqIntInputs[s] :
              TryFFromS(dstType, s, p, src)
    \/ dstType \in FTypes
       /\ \E s \in SeqUTypes, p \in Ptrs : \E src \in SeqIntInputs[s] :
              TryFFromU(dstType, s, p, src)
    \/ dstType \in UTypes
       /\ \E p \in Ptrs, src \in SeqFPInputs : TryUFromF(dstType, "double", p, src)
    \/ dstType \in STypes
       /\ \E p \in Ptrs, src \in SeqFPInputs : TrySFromF(dstType, "double", p, src)
    \/ dstType \in UTypes
       /\ \E p \in Ptrs, str \in SeqStrInputs : TryUFromStr(dstType, p, str)
    \/ dstType \in STypes \cup FTypes
       /\ \E p \in Ptrs, str \in SeqStrInputs : TrySFromStr(dstType, p, str)
    \/ \E p \in Ptrs, str \in SeqStrInputs : TryBoolFromStr(p, str)
    \/ \E p \in Ptrs, str \in SeqStrInputs : CastTryUllongFromStr(p, str)
    \/ \E p \in Ptrs, str \in SeqStrInputs : CastTryLlongFromStr(p, str)

SpecSeq == Init /\ [][NextSeq]_vars

----------------------------------------------------------------------------
(* The functions the header defines, and the asserting <dst>_from_<src>.   *)

\* the types of the sources; "str" is the const char * of the text conversions
SrcTypes == IntTypes \cup FTypes \cup {"str"}

\* the (dst, src) pairs for which the instantiations define try_<dst>_from_<src>,
\* and with it <dst>_from_<src>, in a build without CAST_TESTS
Defined ==
    {ds \in DstTypes \X SrcTypes :
        \/ ds[1] \in IntTypes
        \/ ds[1] \in FTypes /\ ds[2] \in STypes \cup FSrcUTypes \cup {"str"}
        \/ ds[1] = "bool" /\ ds[2] = "str"}

\* the outcomes of try_<d>_from_<s>(p, src) for a defined pair
try_from(d, s, p, old, src) ==
    IF s = "str"
    THEN IF d = "bool" THEN {try_bool_from_str(p, old, src)}
         ELSE IF d \in UTypes THEN {CAST_DEFINE_TRY_U_FROM_STR(d, p, old, src)}
         ELSE {CAST_DEFINE_TRY_S_FROM_STR(d, p, old, src)}
    ELSE IF s \in FTypes
    THEN IF d \in UTypes THEN CAST_DEFINE_TRY_U_FROM_F(d, p, old, src)
         ELSE CAST_DEFINE_TRY_S_FROM_F(d, TypeMin(d), p, old, src)
    ELSE IF d \in UTypes THEN {CAST_DEFINE_TRY_U(d, s, p, old, src)}
    ELSE IF d \in STypes THEN {CAST_DEFINE_TRY_S(d, s, p, old, src)}
    ELSE {CAST_DEFINE_TRY_F(d, s, p, old, src)}

\* cast_panic(msg, ...): the format and the arguments cast_panic_impl is called
\* with in <dst_type_name>_from_<src_type_name>
cast_panic(dst_type_name, src_type_name) ==
    [format |-> <<"cast: panic in ", "%s", "():", "%d", ": ",
                  "failed to convert ", "%s", " to ", "%s", "\n">>,
     args |-> << <<dst_type_name, "_from_", src_type_name>>, "__LINE__",
                 src_type_name, dst_type_name >>]

\* the text vfprintf writes: each conversion specification of the format
\* replaced by the next argument
vfprintf(format, args) ==
    [i \in 1..Len(format) |->
        IF format[i] \in {"%s", "%d"}
        THEN args[Cardinality({j \in 1..i : format[j] \in {"%s", "%d"}})]
        ELSE format[i]]

\* a tmp that starts as one
FromTmp_One(dst_type) == OneOf(dst_type)

\* dst_type tmp = 0
FromTmp(dst_type) == ZeroOf(dst_type)

\* a body that returns tmp whatever try_ returned
CAST_DEFINE_FROM_Silent(dst_type_name, src_type_name, r) ==
    [panic |-> FALSE, tmp |-> r.val]

\* the body of <dst_type_name>_from_<src_type_name> once try_ returned r: whether
\* cast_panic is invoked, and the tmp the function goes on with
CAST_DEFINE_FROM(dst_type_name, src_type_name, r) ==
    [panic |-> r.ret # 0, tmp |-> r.val]

\* a cast_panic_impl that exits before it prints
DefaultPanicImpl_ExitFirst == <<"exit", "vfprintf">>

\* the statements of the default cast_panic_impl
DefaultPanicImpl == <<"vfprintf", "exit">>

\* the argument of an asserting call as the call record keeps it: a record for
\* every source type, the text of a const char * boxed, so that the states of
\* one graph hold values TLC can compare
Boxed(s, src) == IF s = "str" THEN [str |-> src] ELSE src

\* x = <d>_from_<s>(src) up to its return, or up to the call of cast_panic_impl
From(d, s, src) ==
    /\ ~fault
    /\ exit_status = Running
    /\ from.pc = "none"
    /\ dstType = d
    /\ \E r \in try_from(d, s, "&tmp", FromTmp(d), src) :
        \E f \in {CAST_DEFINE_FROM(d, s, r)} :
          /\ call' = [fn |-> "FROM", d |-> d, s |-> s, p |-> "&tmp",
                      src |-> Boxed(s, src), ret |-> r.ret]
          /\ from' = [pc |-> IF f.panic THEN "cast_panic_impl" ELSE "returned",
                      stmt |-> IF f.panic THEN 1 ELSE 0, tmp |-> f.tmp]
          /\ panics' = IF f.panic THEN Append(panics, cast_panic(d, s)) ELSE panics
          /\ dst' = IF f.panic THEN dst ELSE f.tmp
          /\ prev' = dst
          /\ lastOk' = IF r.ret = 0 THEN r.val ELSE lastOk
    /\ errno' = IF s # "str" THEN errno
                ELSE IF d \in UTypes THEN cast_try_ullong_from_str_errno("&tmp", src, errno)
                ELSE cast_try_llong_from_str_errno("&tmp", src, errno)
    /\ UNCHANGED <<thr, cc, dstType, fault, handler, err_stream, exit_status, fwd>>

\* the default cast_panic_impl at its vfprintf(stderr, format, args)
Vfprintf ==
    /\ exit_status = Running
    /\ handler = "default"
    /\ from.pc = "cast_panic_impl"
    /\ from.stmt \in DOMAIN DefaultPanicImpl
    /\ DefaultPanicImpl[from.stmt] = "vfprintf"
    /\ err_stream' = Append(err_stream, vfprintf(panics[Len(panics)].format,
                                                 panics[Len(panics)].args))
    /\ from' = [from EXCEPT !.stmt = @ + 1]
    /\ UNCHANGED <<thr, cc, dstType, dst, prev, lastOk, call, fault, errno, handler, panics,
                   exit_status, fwd>>

\* the default cast_panic_impl at its exit(1)
Exit ==
    /\ exit_status = Running
    /\ handler = "default"
    /\ from.pc = "cast_panic_impl"
    /\ from.stmt \in DOMAIN DefaultPanicImpl
    /\ DefaultPanicImpl[from.stmt] = "exit"
    /\ exit_status' = 1
    /\ UNCHANGED <<thr, cc, dstType, dst, prev, lastOk, call, fault, errno, handler, panics,
                   err_stream, from, fwd>>

\* a cast_panic_impl of a CAST_CUSTOM_PANIC build that returns, and the
\* "return tmp" the asserting function goes on with
CustomPanicImpl ==
    /\ exit_status = Running
    /\ handler = "custom"
    /\ from.pc = "cast_panic_impl"
    /\ from' = [from EXCEPT !.pc = "returned", !.stmt = 0]
    /\ dst' = from.tmp
    /\ UNCHANGED <<thr, cc, dstType, prev, lastOk, call, fault, errno, handler, panics,
                   err_stream, exit_status, fwd>>

\* the arguments the asserting functions are called with
FromInputs ==
    [d \in DstTypes, s \in SrcTypes |->
        IF s = "str" THEN SeqStrInputs
        ELSE IF s \in FTypes THEN SeqFPInputs \cup {NaN}
        ELSE SeqIntInputs[s] \cup {TypeMin(s)}]

NextFrom ==
    \/ Redeclare
    \/ \E s \in SrcTypes :
          /\ <<dstType, s>> \in Defined
          /\ \E src \in FromInputs[dstType, s] : From(dstType, s, src)
    \/ Vfprintf
    \/ Exit
    \/ CustomPanicImpl

\* a build with the default cast_panic_impl, or with one that returns
SpecFrom == (\E h \in {"default", "custom"} : Start(h)) /\ [][NextFrom]_vars

\* the default cast_panic_impl runs to its end once it is called
SpecFromFair == SpecFrom /\ WF_from(Vfprintf) /\ WF_exit_status(Exit)

----------------------------------------------------------------------------
(* A converted integer converted back to the type it came from.            *)

\* the macro that defines try_<d>_from_<s> for integer types d and s
IntFn(d, s) ==
    IF d \in UTypes THEN (IF s \in STypes THEN "U_FROM_S" ELSE "U_FROM_U")
    ELSE (IF s \in STypes THEN "S_FROM_S" ELSE "S_FROM_U")

\* after a successful try_<T>_from_<U>(&dst, x): U back = 0;
\* try_<U>_from_<T>(&back, dst), and back is the destination from then on
Back ==
    /\ ~fault
    /\ exit_status = Running
    /\ from.pc = "none"
    /\ fwd = NoCall
    /\ call.d \in IntTypes /\ call.s \in IntTypes /\ call.fn = IntFn(call.d, call.s)
    /\ call.ret = 0 /\ call.p # NULL
    /\ \E r \in try_from(call.s, call.d, "&dst", ZeroOf(call.s), dst) :
          /\ dstType' = call.s
          /\ dst' = r.val
          /\ prev' = ZeroOf(call.s)
          /\ lastOk' = r.val
          /\ call' = [fn |-> IntFn(call.s, call.d), d |-> call.s, s |-> call.d,
                      p |-> "&dst", src |-> dst, ret |-> r.ret]
          /\ fwd' = call
    /\ UNCHANGED <<thr, cc, fault, errno, handler, panics, err_stream, exit_status, from>>

NextRound ==
    \/ NextInt
    \/ Back

SpecRound == Init /\ [][NextRound]_vars

----------------------------------------------------------------------------
(* cast_shift_zeros_right called on its own.                               *)

\* the values cast_shift_zeros_right is called with: those of cast_tests, and
\* 1, 3, 2^24 - 1 and 2^j - 1 shifted left by every k that keeps them in 64 bits
ShiftInputs ==
    {U64Zero, U64Max, U64(16777215 * 2 + 1)}
    \cup UNION {{Shl(m, k) : m \in {x \in {U64One, U64(3), U64(16777215)} :
                                        BitLen(x) + k <= 64}} : k \in 0..63}
    \cup {Shl(UDec(Pow2(j)), 64 - j) : j \in 1..63}

\* cast_largest_utype dst = cast_shift_zeros_right(value)
ShiftZerosRight(value) ==
    \E r \in {Store(IntV(FALSE, cast_shift_zeros_right(value)))} :
        Call("cast_shift_zeros_right", "u64", "u64", "&dst", IntV(FALSE, value), r)
        /\ UNCHANGED errno

NextShift ==
    \/ Redeclare
    \/ Fresh /\ dstType = "u64" /\ \E value \in ShiftInputs : ShiftZerosRight(value)

SpecShift == Init /\ [][NextShift]_vars

----------------------------------------------------------------------------
(* The text primitives called by several threads, statement by statement.  *)
(* errno is an lvalue with thread storage duration: each thread has its    *)
(* own.                                                                    *)

\* one errno object for the whole process
ErrnoLoc_Shared(t) == 1

\* the thread whose errno object the thread t reads and writes
ErrnoLoc(t) == t

\* the texts the threads parse: 1, 1x, 2^63 and 2^64
ThreadTexts ==
    {<<"1">>, <<"1", "x">>,
     <<"9", "2", "2", "3", "3", "7", "2", "0", "3", "6", "8", "5", "4", "7", "7", "5", "8", "0", "8">>,
     <<"1", "8", "4", "4", "6", "7", "4", "4", "0", "7", "3", "7", "0", "9", "5", "5", "1", "6", "1", "6">>}

\* thread t, whose errno some earlier library call left as e, enters
\* cast_try_ullong_from_str or cast_try_llong_from_str with its own destination
ThreadCall(t, fn, str, e) ==
    /\ thr[t].pc = "idle"
    /\ thr' = [thr EXCEPT ![t] = [@ EXCEPT !.pc = "errno = 0", !.fn = fn, !.str = str],
                          ![ErrnoLoc(t)].errno = e]
    /\ UNCHANGED <<cc, dstType, dst, prev, lastOk, call, fault, errno, handler, panics,
                   err_stream, exit_status, from, fwd>>

\* errno = 0
ThreadReset(t) ==
    /\ thr[t].pc = "errno = 0"
    /\ thr' = [thr EXCEPT ![t].pc = "strto", ![ErrnoLoc(t)].errno = 0]
    /\ UNCHANGED <<cc, dstType, dst, prev, lastOk, call, fault, errno, handler, panics,
                   err_stream, exit_status, from, fwd>>

\* val = strtoull(str, &endptr, 0), or strtoll: errno is written on a range
\* error only
ThreadStrto(t) ==
    /\ thr[t].pc = "strto"
    /\ \E r \in {IF thr[t].fn = "cast_try_ullong_from_str" THEN strtoull(thr[t].str)
                  ELSE strtoll(thr[t].str)} :
          thr' = [thr EXCEPT ![t] = [@ EXCEPT !.pc = "if", !.val = r.val, !.end = r.end],
                             ![ErrnoLoc(t)].errno = IF r.errno # 0 THEN r.errno ELSE @]
    /\ UNCHANGED <<cc, dstType, dst, prev, lastOk, call, fault, errno, handler, panics,
                   err_stream, exit_status, from, fwd>>

\* the three tests after the parse, and *dst = val
ThreadTest(t) ==
    /\ thr[t].pc = "if"
    /\ thr' = [thr EXCEPT ![t] =
                  IF \/ thr[ErrnoLoc(t)].errno # 0
                     \/ CharAt(@.str, @.end) # "\\0"
                     \/ @.end = 1 \/ CharAt(@.str, 1) = "\\0"
                  THEN [@ EXCEPT !.pc = "done", !.ret = 0 - 1]
                  ELSE [@ EXCEPT !.pc = "done", !.ret = 0, !.dst = thr[t].val]]
    /\ UNCHANGED <<cc, dstType, dst, prev, lastOk, call, fault, errno, handler, panics,
                   err_stream, exit_status, from, fwd>>

NextThreads ==
    \/ \E t \in Threads, str \in ThreadTexts, e \in {0, ERANGE} :
          \E fn \in {"cast_try_ullong_from_str", "cast_try_llong_from_str"} :
              ThreadCall(t, fn, str, e)
    \/ \E t \in Threads : ThreadReset(t)
    \/ \E t \in Threads : ThreadStrto(t)
    \/ \E t \in Threads : ThreadTest(t)

\* one process, its threads idle
InitThreads == Init /\ cc = "gcc" /\ dstType = "ullong"

SpecThreads == InitThreads /\ [][NextThreads]_vars

----------------------------------------------------------------------------
(* The claims.                                                             *)

IntFns == {"U_FROM_S", "U_FROM_U", "S_FROM_S", "S_FROM_U"}
IntToFPFns == {"F_FROM_S", "F_FROM_U"}
FPToIntFns == {"U_FROM_F", "S_FROM_F"}

Called == call.fn # "none"
Failed == Called /\ call.ret # 0

\* C1: for every pair of integer types and every source value, with a non-null
\* destination, try_<dst>_from_<src> returns 0 exactly when
\* dst_min <= src <= dst_max, and then the destination holds the value of src.
C1_IntegerRange ==
    (call.fn \in IntFns /\ call.p # NULL) =>
        /\ (call.ret = 0) <=> InRange(call.src, call.d)
        /\ call.ret = 0 => dst = call.src

\* 256 -> u8 was tried and failed
C1_Witness ==
    /\ call.fn = "U_FROM_S" /\ call.d = "u8" /\ call.s = "int" /\ call.p # NULL
    /\ call.src = IPos(256) /\ call.ret # 0

\* C2: a fallible conversion that returns failure leaves the destination as it
\* was, so after any sequence of calls the destination holds the value written
\* by the most recent successful call, or its initial value.
C2_FailureKeepsDestination ==
    /\ Failed => dst = prev
    /\ dst = lastOk

\* a success changed the destination and a later failing text conversion kept it
C2_Witness ==
    /\ call.fn = "U_FROM_STR" /\ call.p # NULL /\ call.ret # 0 /\ call.src = <<"1", "x">>
    /\ dst \notin Inits(dstType)

\* C3: called with a null destination, every fallible conversion returns failure
\* for every source, and nothing is stored through the null pointer.
C3_NullDestinationFails ==
    /\ ~fault
    /\ (Called /\ call.p = NULL) => call.ret # 0

\* a well-formed text went to try_bool_from_str with a null destination
C3_Witness ==
    call.fn = "bool_from_str" /\ call.p = NULL /\ call.src = <<"1">> /\ call.ret # 0

\* the number of bits from the highest to the lowest set bit of the integer v
SignificantBits(v) == IF v.mag = U64Zero THEN 0 ELSE BitLen(v.mag) - Ctz(v.mag)

\* the integer v is a value of the floating type t
Representable(v, t) == SignificantBits(v) <= Precision(t)

\* C4: an integer to float or double conversion succeeds only if the source is
\* exactly representable (at most 24 significant bits for float, 53 for double,
\* trailing zero bits stripped), and the value written equals the source.
C4_SucceedsOnlyIfExact ==
    (call.fn \in IntToFPFns /\ call.ret = 0) =>
        /\ Representable(call.src, call.d)
        /\ FPEqualsInt(dst, call.src)

\* C5: an integer to float or double conversion succeeds for every integer that
\* is exactly representable in the destination, and writes a value equal to it.
C5_ExactSucceeds ==
    (call.fn \in IntToFPFns /\ call.p # NULL /\ Representable(call.src, call.d)) =>
        /\ call.ret = 0
        /\ FPEqualsInt(dst, call.src)

\* 0xF00000000, four significant bits, was converted to float
C5_Witness ==
    /\ call.fn = "F_FROM_U" /\ call.d = "float" /\ call.s = "u64" /\ call.p # NULL
    /\ call.src = IntV(FALSE, <<0, 15, 0, 0>>) /\ call.ret = 0
    /\ dst = Fin(FALSE, U64(15), 32)

\* the integer part of the finite f, big when its magnitude is 2^64 or more
IntegerPart(f) ==
    IF f.e < 0 THEN [big |-> FALSE, v |-> IntV(f.neg, Shr(f.m, 0 - f.e))]
    ELSE IF BitLen(f.m) + f.e <= 64 THEN [big |-> FALSE, v |-> IntV(f.neg, Shl(f.m, f.e))]
    ELSE [big |-> TRUE, v |-> Int0]

\* the integer part of the finite f is a value of the integer type t
TruncInRange(f, t) == ~IntegerPart(f).big /\ InRange(IntegerPart(f).v, t)

C8_FloatingWithoutLoss ==
    (call.fn \in FPToIntFns /\ call.src.cls = "fin" /\ call.ret = 0) =>
        FPEqualsInt(call.src, dst)

\* the finite f is negative and above -1
NegativeFraction(f) == f.cls = "fin" /\ f.neg /\ f.m # U64Zero /\ BitLen(f.m) + f.e <= 0

\* C9: a negative fractional source between -1 and 0 fails to convert to every
\* unsigned type.
C9_NegativeFractionFails ==
    (call.fn = "U_FROM_F" /\ call.p # NULL /\ NegativeFraction(call.src)) => call.ret # 0

\* a numeral: an optional sign, then 0x or 0X and hexadecimal digits, or 0 and
\* octal digits, or decimal digits
NumeralBody(t) == IF Len(t) > 0 /\ t[1] \in {"+", "-"} THEN Tail(t) ELSE t
NumeralBase(b) ==
    IF Len(b) >= 3 /\ b[1] = "0" /\ b[2] \in {"x", "X"} THEN 16
    ELSE IF Len(b) >= 2 /\ b[1] = "0" THEN 8 ELSE 10
NumeralDigits(b) == IF NumeralBase(b) = 16 THEN SubSeq(b, 3, Len(b)) ELSE b
WellFormedNumeral(t) ==
    LET b == NumeralBody(t)
        ds == NumeralDigits(b)
    IN  Len(ds) > 0 /\ \A i \in 1..Len(ds) : DigitValue(ds[i], NumeralBase(b)) >= 0

\* the magnitude the digits ds denote in the base, huge when it is 2^64 or more
NumeralMagnitude(ds, base) ==
    LET upto[k \in 0..Len(ds)] ==
            IF k = 0 THEN [mag |-> U64Zero, huge |-> FALSE]
            ELSE Bind(upto[k - 1], LAMBDA u :
                 Bind(UMulAdd(u.mag, base, DigitValue(ds[k], base)), LAMBDA r :
                     [mag |-> r.v, huge |-> u.huge \/ r.ovf]))
    IN  upto[Len(ds)]

\* the integer the well-formed numeral t denotes
Denoted(t) ==
    LET b == NumeralBody(t)
        r == NumeralMagnitude(NumeralDigits(b), NumeralBase(b))
    IN  [huge |-> r.huge, n |-> IntV(t[1] = "-", r.mag)]

\* C10: for a complete well-formed numeral denoting n and an integer type T,
\* try_<T>_from_str succeeds exactly when T_min <= n <= T_max and then writes n;
\* in particular a numeral denoting a negative number fails for every unsigned T.
C10_NumeralInRange ==
    (/\ call.fn \in {"U_FROM_STR", "S_FROM_STR"} /\ call.d \in IntTypes
     /\ call.p # NULL /\ WellFormedNumeral(call.src)) =>
        /\ (call.ret = 0) <=> (~Denoted(call.src).huge /\ InRange(Denoted(call.src).n, call.d))
        /\ call.ret = 0 => dst = Denoted(call.src).n

----------------------------------------------------------------------------
(* Texts that are not numerals.                                            *)

\* the text conversions: the try_<T>_from_str of every destination type and
\* the two parsing primitives
StrFns == {"U_FROM_STR", "S_FROM_STR", "bool_from_str",
           "cast_try_ullong_from_str", "cast_try_llong_from_str"}

\* the text conversions that parse with strtoll
SignedParse ==
    call.fn \in {"S_FROM_STR", "bool_from_str", "cast_try_llong_from_str"}

\* the number of white space characters the text starts with
LeadingSpaces(t) ==
    CHOOSE k \in 0..Len(t) :
        /\ \A i \in 1..k : IsSpace(t[i])
        /\ k = Len(t) \/ ~IsSpace(t[k + 1])

\* the text without the white space it starts with
Unpadded(t) == SubSeq(t, LeadingSpaces(t) + 1, Len(t))

\* the text is a numeral and nothing else, but for white space before it
CompleteNumeral(t) == t # NullStr /\ WellFormedNumeral(Unpadded(t))

\* the complete numeral is beyond the widest integer of the parsed signedness
BeyondWidest(t, signed) ==
    LET n == Denoted(Unpadded(t))
    IN  n.huge \/ (signed /\ (ILt(n.n, LLONG_MIN) \/ IGt(n.n, LLONG_MAX)))

\* C11: every text conversion fails when the text pointer is null, when the
\* text is empty, when no character is consumed as a numeral, when a character
\* remains after the numeral, and when the numeral is beyond the range of the
\* widest native integer of the parsed signedness.
C11_TextFailures ==
    call.fn \in StrFns =>
        /\ call.src = NullStr => call.ret # 0
        /\ call.src = <<>> => call.ret # 0
        /\ ~CompleteNumeral(call.src) => call.ret # 0
        /\ (CompleteNumeral(call.src) /\ BeyondWidest(call.src, SignedParse)) => call.ret # 0

\* try_<T>_from_str(&dst, "1x") for an unsigned T has failed
C11_Witness ==
    /\ call.fn = "U_FROM_STR" /\ call.p # NULL
    /\ call.src = <<"1", "x">> /\ call.ret # 0

\* C12: a text with white space before the numeral, such as " 1", fails for
\* every integer type and for bool.
C12_LeadingSpaceFails ==
    (/\ call.fn \in {"U_FROM_STR", "S_FROM_STR", "bool_from_str"}
     /\ call.d \in IntTypes \cup {"bool"}
     /\ call.src # NullStr /\ LeadingSpaces(call.src) > 0) =>
        call.ret # 0

\* C13: try_bool_from_str with a non-null destination succeeds exactly when the
\* text is a complete numeral within the range of long long, and then writes
\* false for zero and true for every other value.
C13_BoolFromText ==
    (call.fn = "bool_from_str" /\ call.p # NULL) =>
        /\ (call.ret = 0) <=>
               /\ call.src # NullStr /\ WellFormedNumeral(call.src)
               /\ ~BeyondWidest(call.src, TRUE)
        /\ call.ret = 0 => dst = (Denoted(call.src).n.mag # U64Zero)

----------------------------------------------------------------------------
(* The asserting functions and the failure handler.                        *)

\* an asserting function has been called
FromCalled == call.fn = "FROM"

\* the outcomes of the fallible function on the asserting call's argument
TryOutcomes ==
    try_from(call.d, call.s, "&dst", ZeroOf(call.d),
             IF call.s = "str" THEN call.src.str ELSE call.src)

\* the fallible function fails on the asserting call's argument
TryFails == \A r \in TryOutcomes : r.ret # 0

\* C14: <dst>_from_<src>(src) invokes the failure handler exactly when
\* try_<dst>_from_<src> fails on src; on failure the handler is invoked once,
\* with a diagnostic that names the source and the destination type; on success
\* it is not invoked and the value returned is the one the fallible function
\* writes.
C14_AssertingDelegates ==
    FromCalled =>
        /\ (panics # <<>>) <=> TryFails
        /\ TryFails =>
              /\ Len(panics) = 1
              /\ panics[1].args[3] = call.s
              /\ panics[1].args[4] = call.d
        /\ ~TryFails =>
              /\ from.pc = "returned"
              /\ dst \in {r.val : r \in {o \in TryOutcomes : o.ret = 0}}

\* u8_from_i8 was called with a value that does not fit, the handler was invoked
C14_Witness ==
    /\ FromCalled /\ call.d = "u8" /\ call.s = "i8" /\ call.src = INeg(1)
    /\ Len(panics) = 1

\* C15: when the failure handler is a custom one that returns, a failing
\* asserting function returns the zero value of the destination type.
C15_CustomHandlerReturnsZero ==
    (/\ handler = "custom" /\ FromCalled /\ TryFails /\ from.pc = "returned") =>
        dst = ZeroOf(call.d)

\* a failing asserting function returned into a variable that held one
C15_Witness ==
    /\ handler = "custom" /\ FromCalled /\ TryFails /\ from.pc = "returned"
    /\ prev = OneOf(call.d) /\ dst = ZeroOf(call.d)

\* the diagnostic of <d>_from_<s> as it appears on stderr
DiagnosticText(d, s) ==
    <<"cast: panic in ", <<d, "_from_", s>>, "():", "__LINE__", ": ",
      "failed to convert ", s, " to ", d, "\n">>

\* C16: with the default handler a failing asserting conversion first writes
\* its diagnostic to stderr and then terminates the process with exit status 1;
\* it never returns a value.
C16_DefaultHandlerExits ==
    /\ []((handler = "default" /\ FromCalled /\ TryFails) =>
             /\ from.pc # "returned"
             /\ exit_status \in {Running, 1}
             /\ exit_status = 1 => err_stream = <<DiagnosticText(call.d, call.s)>>)
    /\ [][err_stream' = err_stream /\ err_stream # <<>>]_exit_status
    /\ (handler = "default" /\ FromCalled /\ TryFails) ~> (exit_status = 1)

\* the process exited after the diagnostic of i8_from_str was written
C16_Witness ==
    /\ handler = "default" /\ FromCalled /\ call.d = "i8" /\ call.s = "str"
    /\ exit_status = 1 /\ Len(err_stream) = 1

----------------------------------------------------------------------------
(* Round trips and identities of the integer conversions.                  *)

\* the last call converted the result of a successful integer conversion back
WentBack == fwd.fn \in IntFns

\* the two integer types have the same width and the same signedness
SameLayout(t, u) == Bits(t) = Bits(u) /\ IsSigned(t) = IsSigned(u)

\* C17: for integer types T and U and a value x of U, if try_<T>_from_<U>(x)
\* succeeds and writes y, then try_<U>_from_<T>(y) succeeds and writes x.
C17_RoundTrip ==
    WentBack => (call.ret = 0 /\ dst = fwd.src)

\* the maximum of i8 went to u64 and came back
C17_Witness ==
    /\ WentBack /\ fwd.d = "u64" /\ fwd.s = "i8" /\ fwd.src = TypeMax("i8")
    /\ call.ret = 0 /\ dst = TypeMax("i8")

\* C18: try_<T>_from_<T>, and every conversion between integer types of the
\* same width and signedness, succeeds for every source value and writes it
\* unchanged; applied again to its result it gives the same result.
C18_Identity ==
    /\ (call.fn \in IntFns /\ call.p # NULL /\ SameLayout(call.d, call.s)) =>
           (call.ret = 0 /\ dst = call.src)
    /\ (WentBack /\ SameLayout(fwd.d, fwd.s)) =>
           (call.ret = 0 /\ dst = fwd.src /\ dst = call.src)

\* the minimum of i64 was converted to long long and then to i64 again
C18_Witness ==
    /\ WentBack /\ fwd.d = "llong" /\ fwd.s = "i64" /\ fwd.src = TypeMin("i64")
    /\ call.ret = 0 /\ dst = TypeMin("i64")

----------------------------------------------------------------------------
(* The functions that exist, and what a call changes.                      *)

\* the types of the README's list, and the text that is a source only
CatalogueTypes == IntTypes \cup FTypes \cup {"bool"}
CatalogueSources == CatalogueTypes \cup {"str"}

\* C19: for every ordered pair of a destination type and a source type of the
\* catalogue (the integer types, size_t, ptrdiff_t, uintptr_t, float, double,
\* bool, and text as a source) the header defines try_<dst>_from_<src> and
\* <dst>_from_<src>.
C19_EveryPairDefined ==
    dstType \in CatalogueTypes =>
        \A s \in CatalogueSources : <<dstType, s>> \in Defined

\* C20: a fallible conversion changes nothing but its destination, and that
\* only when it succeeds: errno and the rest of the process state are after the
\* call what they were before it.
C20_OnlyDestinationChanges ==
    [][call'.fn \notin {"none", "FROM"} =>
          /\ errno' = errno
          /\ call'.ret # 0 => dst' = dst
          /\ err_stream' = err_stream
          /\ exit_status' = exit_status]_<<errno, dst, err_stream, exit_status>>

----------------------------------------------------------------------------
(* Results as functions of the source.                                     *)

\* the outcomes of the last call's function when it is the first call of a
\* program, on a destination that holds zero
AloneOutcomes ==
    IF call.fn = "cast_try_ullong_from_str"
    THEN {cast_try_ullong_from_str("&dst", Int0, call.src)}
    ELSE IF call.fn = "cast_try_llong_from_str"
    THEN {cast_try_llong_from_str("&dst", Int0, call.src)}
    ELSE try_from(call.d, call.s, "&dst", ZeroOf(call.d), call.src)

\* C21: the result of a fallible conversion, and the value it writes on
\* success, depend on the source and the type pair only: whatever the
\* destination held, whatever errno was and whatever calls ran before, the
\* call gives the one outcome the same call gives at the start of a program.
C21_DeterminedBySource ==
    (call.fn \notin {"none", "FROM"} /\ call.p # NULL) =>
        \E r \in AloneOutcomes :
            /\ AloneOutcomes = {r}
            /\ call.ret = r.ret
            /\ r.ret = 0 => dst = r.val

\* C25: a NaN or infinite source is rejected by every floating to integer
\* conversion: the call fails and leaves the destination as it was.
C25_NonFiniteRejected ==
    (call.fn \in FPToIntFns /\ call.p # NULL /\ call.src.cls # "fin") =>
        (call.ret # 0 /\ dst = prev)

----------------------------------------------------------------------------
(* Concurrent calls.                                                       *)

\* the outcome of the call of thread t when it runs alone
Alone(t) ==
    IF thr[t].fn = "cast_try_ullong_from_str"
    THEN cast_try_ullong_from_str("&dst", Int0, thr[t].str)
    ELSE cast_try_llong_from_str("&dst", Int0, thr[t].str)

\* C22: conversion calls that run at the same time in different threads, each
\* with its own destination and its own errno, do not interfere: under every
\* interleaving of their statements each call returns what it returns alone and
\* leaves in its destination what it leaves alone.
C22_ThreadsDoNotInterfere ==
    \A t \in Threads :
        thr[t].pc = "done" =>
            (thr[t].ret = Alone(t).ret /\ thr[t].dst = Alone(t).val)

\* thread 1 parsed 2^64 and failed while thread 2, which parses 1 and entered
\* with errno set, is between its strtoull and its tests
C22_Witness ==
    /\ thr[1].pc = "done" /\ thr[1].ret # 0 /\ thr[1].errno = ERANGE
    /\ thr[2].pc = "if" /\ thr[2].str = <<"1">> /\ thr[2].errno = 0

----------------------------------------------------------------------------
(* Trailing zeros.                                                         *)

\* r is v without its trailing zero bits: zero for zero, else the odd r with
\* v = r * 2^k for some k
OddPartOf(r, v) ==
    IF v = U64Zero THEN r = U64Zero
    ELSE /\ r[4] % 2 = 1
         /\ \E k \in 0..63 : Shl(r, k) = v /\ Shr(v, k) = r

\* C23: cast_shift_zeros_right is defined for every 64-bit magnitude: it
\* returns 0 for 0, and for v > 0 the odd r with v = r * 2^k; the
\* __builtin_ctzll variant and the variant of conditional shifts by 32, 16, 8,
\* 4, 2, 1 return the same value.
C23_ShiftZerosRight ==
    call.fn = "cast_shift_zeros_right" =>
        /\ call.ret = 0
        /\ OddPartOf(dst.mag, call.src.mag)
        /\ cast_shift_zeros_right_ctz(call.src.mag)
             = cast_shift_zeros_right_shifts(call.src.mag)

\* the build with the conditional shifts was given 3 * 2^62 and returned 3
C23_Witness ==
    /\ call.fn = "cast_shift_zeros_right" /\ cc = "gcc"
    /\ call.src.mag = Shl(U64(3), 62) /\ dst.mag = U64(3)

----------------------------------------------------------------------------
(* The fast path of the integer to floating-point conversions.             *)

\* the call took the "sizeof(src) < sizeof(*dst)" path
FastPath == call.fn \in IntToFPFns /\ call.p # NULL /\ Bits(call.s) < Bits(call.d)

\* the test of the general path, "relevant > (1ULL << mantissa_bits) - 1ULL",
\* does not reject src
GeneralTestPasses(dst_type, src) ==
    ~UGt(cast_shift_zeros_right(ToLargestU(IF src.neg THEN INegate(src) ELSE src)),
         MantissaLimit(mantissa_bits(dst_type)))

\* C24: the fast path of the integer to floating-point conversions changes no
\* outcome: for a source type smaller than the floating type (8 and 16 bits
\* for float, 8, 16 and 32 bits for double) the call succeeds, the general
\* test would accept the source as well, the source is exactly representable
\* and the value written equals it.
C24_FastPathChangesNothing ==
    FastPath =>
        /\ call.ret = 0
        /\ GeneralTestPasses(call.d, call.src)
        /\ Representable(call.src, call.d)
        /\ FPEqualsInt(dst, call.src)

\* UINT16_MAX, sixteen significant bits, was converted to float on the fast path
C24_Witness ==
    /\ FastPath /\ call.fn = "F_FROM_U" /\ call.d = "float" /\ call.s = "u16"
    /\ call.src = TypeMax("u16") /\ call.ret = 0
    /\ dst = Fin(FALSE, U64(65535), 0)

----------------------------------------------------------------------------
(* The most negative source of the signed integer to floating-point        *)
(* conversions.                                                            *)

\* the type "-src" is computed in: src_type after the integer promotions
PromotedType(src_type) == IF Bits(src_type) < 32 THEN "int" ELSE src_type

\* the call went past the fast path and the "src == src_min" test and
\* evaluated "-src"
ReachesNegation ==
    /\ call.fn = "F_FROM_S" /\ call.p # NULL
    /\ ~(Bits(call.s) < Bits(call.d))
    /\ call.src # TypeMin(call.s)
    /\ ILt(call.src, Int0)

\* C26: for every signed source type, the conversion of its most negative
\* value -2^(w-1) to float or double succeeds, on a path that does not negate
\* the source; the value written is -2^(w-1) exactly, and the general test
\* accepts the magnitude 2^(w-1) as well.  Every source that does reach the
\* negation has a negation its promoted type can hold.
C26_MostNegativeSource ==
    /\ (call.fn = "F_FROM_S" /\ call.p # NULL /\ call.src = TypeMin(call.s)) =>
            /\ ~ReachesNegation
            /\ call.ret = 0
            /\ dst = Fin(TRUE, U64One, Bits(call.s) - 1)
            /\ ~UGt(cast_shift_zeros_right(Pow2(Bits(call.s) - 1)),
                    MantissaLimit(mantissa_bits(call.d)))
    /\ ReachesNegation =>
            InRange(INegate(call.src), PromotedType(call.s))

\* INT32_MIN was converted to float, past the fast path
C26_Witness ==
    /\ call.fn = "F_FROM_S" /\ call.p # NULL /\ call.d = "float" /\ call.s = "i32"
    /\ call.src = TypeMin("i32") /\ call.ret = 0
    /\ dst = Fin(TRUE, U64One, 31)

----------------------------------------------------------------------------
(* Text to float and double.                                               *)

\* try_float_from_str or try_double_from_str was called with a destination
FloatFromStr == call.fn = "S_FROM_STR" /\ call.d \in FTypes /\ call.p # NULL

\* the outcome of try_<call.d>_from_llong on the value of the numeral t
FromLlong(t) == TryFromLlong(call.d, "&dst", prev, Denoted(t).n)

\* t is a numeral and nothing else, within long long, and its value passes
\* try_<call.d>_from_llong
PassesFromLlong(t) ==
    /\ t # NullStr /\ WellFormedNumeral(t)
    /\ ~BeyondWidest(t, TRUE)
    /\ FromLlong(t).ret = 0

\* C27: try_float_from_str and try_double_from_str succeed exactly when the
\* text is a complete integer numeral within the range of long long whose
\* value passes try_float_from_llong or try_double_from_llong, and then write
\* what that function writes; a text with a fraction or an exponent and a
\* numeral above LLONG_MAX fail.
C27_FloatFromText ==
    FloatFromStr =>
        /\ (call.ret = 0) <=> PassesFromLlong(call.src)
        /\ call.ret = 0 => dst = FromLlong(call.src).val

====
